---- MODULE Spec2Model ----
(***************************************************************************)
(* Model of the dataset merge-and-validate pipeline of                     *)
(* src/data_developer_utils.py: class StressDataHandler (load, positional  *)
(* merge, validation, JSON projection) and the example pipeline of its     *)
(* __main__ block.                                                         *)
(*                                                                         *)
(* A DataFrame is a record [columns, rows]: the ordered list of column     *)
(* names (names may repeat) and the rows in RangeIndex order, each row a   *)
(* sequence of cells, one per column.  A cell is a missing value (NaN), a  *)
(* non-negative decimal number (integer part and the sequence of its       *)
(* fractional digits) or a string (the sequence of the Unicode code points *)
(* of its characters).                                                     *)
(***************************************************************************)
EXTENDS Integers, Sequences, FiniteSets, TLC

VARIABLES
    fileA,      \* what is stored at stress_path
    fileB,      \* what is stored at stress_level_path
    mode,       \* "client": a caller using the class; "main": the __main__ block;
                \* "ml", "saas", "eda": one of the scripts
    pc,         \* position of the caller
    df,         \* self.df (a script's merged_df): None or the merged DataFrame
    lastop,     \* the operation that ran last
    ret,        \* what the last operation returned
    orient,     \* the orient argument of the last get_data_as_json call
    out,        \* what the last operation printed
    err,        \* the uncaught exception that ended the run, or "none"
    validated,  \* what validate_data returned last (__main__: the condition of
                \* line 96): "unset", "True", "False"
    json_data,  \* __main__: the local json_data of line 98
    jsonFile,   \* content of stress_data.json
    frames,     \* a script's stress_df and stress_level_df, None before the load
    chart       \* the slices of the dashboard's pie chart, None before it is drawn

vars == <<fileA, fileB, mode, pc, df, lastop, ret, orient, out, err, validated,
          json_data, jsonFile, frames, chart>>

----------------------------------------------------------------------------
(* Bounds of the model *)

\* largest number of data rows of a source file
MaxRows == 5

\* largest number of data rows of a source file read by a script
MaxScriptRows == 4

----------------------------------------------------------------------------
(* Values *)

None == [k |-> "None"]

Null == [k |-> "null"]
Num(w, f) == [k |-> "num", whole |-> w, frac |-> f]
Str(s) == [k |-> "str", chars |-> s]

IsNull(c) == c.k = "null"

Max(a, b) == IF a >= b THEN a ELSE b

\* the messages the code prints
MsgNotFound == "Make sure the CSV files are in the correct directory."
MsgMissingValues == "Error: Missing values found in the data."
MsgMissingColumns == "Error: Missing expected columns."
MsgValid == "Data validation successful."
MsgSaved == "\nSuccessfully saved data to stress_data.json"

\* expected_columns of validate_data
expected_columns == <<"Gender", "Age", "stress_level">>

----------------------------------------------------------------------------
(* The source files: the inputs of the model *)

Missing == [k |-> "missing"]    \* no file at the path
Empty == [k |-> "empty"]        \* a file of zero bytes
CsvFile(t) == [k |-> "csv", table |-> t]

StressType == "Which type of stress do you primarily experience?"

IsTextColumn(col) == col = StressType

\* The headers the response file and the level file are drawn from.  Names
\* within one file are distinct (read_csv renames repeated names of one file).
HeadersA ==
    { <<"Gender", "Age">>, <<"Age">>, <<"Gender", "Age", StressType>> }
HeadersB ==
    { <<"anxiety_level", "stress_level">>, <<"anxiety_level">>,
      <<"Age", "stress_level">> }

\* The cell a column holds in row i unless the file says otherwise; the values
\* differ from row to row and between the two files.
DefaultCell(src, col, i) ==
    IF IsTextColumn(col) THEN Str(<<116, IF i % 2 = 0 THEN 120 ELSE 121>>)
    ELSE IF col = "Gender" THEN Num(i % 2, <<>>)
    ELSE IF col = "stress_level" THEN Num(i % 3, <<>>)
    ELSE IF col = "anxiety_level" THEN Num(10 + i, <<>>)
    ELSE IF src = "A" THEN Num(18 + i, <<>>) ELSE Num(30 + i, <<>>)

\* 0.12345678901, 0.99999999999 (eleven decimal places) and 0.5
LongFracDown == <<1, 2, 3, 4, 5, 6, 7, 8, 9, 0, 1>>
LongFracUp == <<9, 9, 9, 9, 9, 9, 9, 9, 9, 9, 9>>

\* The other cells a file may hold in one place of a column.  The string:
\* a, a slash, a quote, a backslash, a line feed, the control character
\* U+0001, e with acute accent (U+00E9) and a character outside the basic
\* plane (U+1F600).
SpecialCells(col) ==
    IF IsTextColumn(col)
    THEN { Null, Str(<<97, 47, 34, 92, 10, 1, 233, 128512>>) }
    ELSE { Null, Num(0, LongFracDown), Num(0, LongFracUp), Num(0, <<5>>) }

\* A table of n rows under header h: default cells, but cell v at place at
\* (at = <<0, 0>>: no such place).
MakeTable(src, h, n, at, v) ==
    [columns |-> h,
     rows |-> [i \in 1..n |->
                 [j \in 1..Len(h) |->
                    IF at = <<i, j>> THEN v ELSE DefaultCell(src, h[j], i)]]]

Tables(src, headers) ==
    UNION { UNION { { MakeTable(src, h, n, <<0, 0>>, Null) } \cup
                    { MakeTable(src, h, n, <<i, j>>, v) :
                        <<i, j, v>> \in
                          UNION { { <<i2, j2, v2>> : v2 \in SpecialCells(h[j2]) } :
                                    <<i2, j2>> \in (1..n) \X (1..Len(h)) } }
                  : n \in 0..MaxRows }
          : h \in headers }

FilesA == { Missing, Empty } \cup { CsvFile(t) : t \in Tables("A", HeadersA) }
FilesB == { Missing, Empty } \cup { CsvFile(t) : t \in Tables("B", HeadersB) }

\* the file holds no other cell than the default cells
IsPlain(src, f) ==
    f.k = "csv" =>
        f.table = MakeTable(src, f.table.columns, Len(f.table.rows), <<0, 0>>, Null)

\* The level files the handler is run on together with the response file a:
\* of the cells of the two files at most one is not the default cell.
FilesBWith(a) == { b \in FilesB : IsPlain("A", a) \/ IsPlain("B", b) }

----------------------------------------------------------------------------
(* pandas operations used by the handler *)

\* pd.read_csv(path): the DataFrame of the file, or the exception raised.
read_csv(file) ==
    IF file.k = "missing" THEN [exc |-> "FileNotFoundError", df |-> None]
    ELSE IF file.k = "empty" THEN [exc |-> "EmptyDataError", df |-> None]
    ELSE [exc |-> "none", df |-> file.table]

NullRow(n) == [j \in 1..n |-> Null]

\* Faulty variants of concat_axis1, against which the properties are tested:
\* an inner join on the row labels,
concat_axis1_inner(a, b) ==
    LET n == IF Len(a.rows) <= Len(b.rows) THEN Len(a.rows) ELSE Len(b.rows)
    IN [columns |-> a.columns \o b.columns,
        rows |-> [i \in 1..n |-> a.rows[i] \o b.rows[i]]]

\* a merge that drops the columns of b whose names a has already,
concat_axis1_dedup(a, b) ==
    LET n == Max(Len(a.rows), Len(b.rows))
        keep == SelectSeq([j \in 1..Len(b.columns) |-> j],
                          LAMBDA j : \A q \in 1..Len(a.columns) :
                                        a.columns[q] # b.columns[j])
    IN [columns |-> a.columns \o [q \in 1..Len(keep) |-> b.columns[keep[q]]],
        rows |-> [i \in 1..n |->
                    (IF i <= Len(a.rows) THEN a.rows[i]
                     ELSE NullRow(Len(a.columns)))
                    \o [q \in 1..Len(keep) |->
                          IF i <= Len(b.rows) THEN b.rows[i][keep[q]] ELSE Null]]]

\* and a merge that takes the rows of a in reverse order.
concat_axis1_swapped(a, b) ==
    LET n == Max(Len(a.rows), Len(b.rows))
    IN [columns |-> a.columns \o b.columns,
        rows |-> [i \in 1..n |->
                    (IF n + 1 - i <= Len(a.rows) THEN a.rows[n + 1 - i]
                     ELSE NullRow(Len(a.columns)))
                    \o (IF i <= Len(b.rows) THEN b.rows[i]
                        ELSE NullRow(Len(b.columns)))]]

\* pd.concat([a, b], axis=1) of two frames with a RangeIndex: the outer join
\* on the row labels; all columns of a, then all columns of b.
concat_axis1(a, b) ==
    LET n == Max(Len(a.rows), Len(b.rows))
    IN [columns |-> a.columns \o b.columns,
        rows |-> [i \in 1..n |->
                    (IF i <= Len(a.rows) THEN a.rows[i]
                     ELSE NullRow(Len(a.columns)))
                    \o (IF i <= Len(b.rows) THEN b.rows[i]
                        ELSE NullRow(Len(b.columns)))]]

\* df.isnull().sum().sum()
null_count(d) ==
    Cardinality({ <<i, j>> \in (1..Len(d.rows)) \X (1..Len(d.columns)) :
                    IsNull(d.rows[i][j]) })

\* col in df.columns
has_column(d, col) == \E j \in 1..Len(d.columns) : d.columns[j] = col

----------------------------------------------------------------------------
(* DataFrame.to_json and json.loads *)

\* double_precision of DataFrame.to_json (its default: the call passes none)
DoublePrecision == 10
\* indent of the to_json call
JsonIndent == 4

RECURSIVE StripZeros(_)
\* a digit sequence without its trailing zeros
StripZeros(ds) ==
    IF ds = <<>> THEN <<>>
    ELSE IF ds[Len(ds)] = 0 THEN StripZeros(SubSeq(ds, 1, Len(ds) - 1))
    ELSE ds

RECURSIVE IncDigits(_)
\* ++frac on a digit sequence: the digits and the carry out of them
IncDigits(ds) ==
    IF ds = <<>> THEN [digits |-> <<>>, carry |-> 1]
    ELSE IF ds[Len(ds)] < 9
    THEN [digits |-> [ds EXCEPT ![Len(ds)] = @ + 1], carry |-> 0]
    ELSE LET r == IncDigits(SubSeq(ds, 1, Len(ds) - 1))
         IN [digits |-> Append(r.digits, 0), carry |-> r.carry]

\* The encoder's number: whole and frac are split, frac is cut to
\* DoublePrecision digits and rounded by the digits cut off (diff): up when
\* diff > 0.5, and at diff = 0.5 when frac is 0 or odd; a frac that rolls over
\* adds one to whole; trailing zeros are not written.
encode_double(w, f) ==
    IF Len(f) <= DoublePrecision
    THEN [t |-> "number", whole |-> w, frac |-> StripZeros(f)]
    ELSE LET kept == SubSeq(f, 1, DoublePrecision)
             rest == SubSeq(f, DoublePrecision + 1, Len(f))
             tailZero == \A q \in 2..Len(rest) : rest[q] = 0
             above == rest[1] > 5 \/ (rest[1] = 5 /\ ~tailZero)
             half == rest[1] = 5 /\ tailZero
             fracZero == \A q \in 1..Len(kept) : kept[q] = 0
             fracOdd == kept[Len(kept)] % 2 = 1
             up == above \/ (half /\ (fracZero \/ fracOdd))
             inc == IncDigits(kept)
         IN IF up
            THEN [t |-> "number", whole |-> w + inc.carry,
                  frac |-> StripZeros(inc.digits)]
            ELSE [t |-> "number", whole |-> w, frac |-> StripZeros(kept)]

\* the code point of the n-th hexadecimal digit, in lower case
HexDigit(n) == IF n < 10 THEN 48 + n ELSE 87 + n

\* \uXXXX for a code unit below 65536
Hex4(c) ==
    <<92, 117, HexDigit(c \div 4096), HexDigit((c \div 256) % 16),
      HexDigit((c \div 16) % 16), HexDigit(c % 16)>>

\* What the encoder writes for one character: quote, backslash and slash
\* with a backslash before them; backspace, form feed, line feed, carriage
\* return and tab as \b \f \n \r \t; any other control character and every
\* character outside ASCII as \uXXXX (force_ascii), one outside the basic
\* plane as its surrogate pair.
escape_char(c) ==
    IF c \in {34, 92, 47} THEN <<92, c>>
    ELSE IF c = 8 THEN <<92, 98>>
    ELSE IF c = 12 THEN <<92, 102>>
    ELSE IF c = 10 THEN <<92, 110>>
    ELSE IF c = 13 THEN <<92, 114>>
    ELSE IF c = 9 THEN <<92, 116>>
    ELSE IF c < 32 THEN Hex4(c)
    ELSE IF c < 128 THEN <<c>>
    ELSE IF c < 65536 THEN Hex4(c)
    ELSE Hex4(55296 + ((c - 65536) \div 1024))
         \o Hex4(56320 + ((c - 65536) % 1024))

RECURSIVE escape(_)
\* the characters of a JSON string between its quotes
escape(cs) ==
    IF cs = <<>> THEN <<>>
    ELSE escape_char(Head(cs)) \o escape(Tail(cs))

\* the value of a hexadecimal digit, -1 for any other character
HexValue(c) ==
    IF c \in 48..57 THEN c - 48
    ELSE IF c \in 65..70 THEN c - 55
    ELSE IF c \in 97..102 THEN c - 87
    ELSE -1

IsHex4(cs, p) ==
    /\ p + 3 <= Len(cs)
    /\ \A q \in p..(p + 3) : HexValue(cs[q]) >= 0

Hex4Value(cs, p) ==
    4096 * HexValue(cs[p]) + 256 * HexValue(cs[p + 1])
      + 16 * HexValue(cs[p + 2]) + HexValue(cs[p + 3])

\* the character a backslash and c stand for, -1 when there is none
simple_escape(c) ==
    IF c \in {34, 92, 47} THEN c
    ELSE IF c = 98 THEN 8
    ELSE IF c = 102 THEN 12
    ELSE IF c = 110 THEN 10
    ELSE IF c = 114 THEN 13
    ELSE IF c = 116 THEN 9
    ELSE -1

DecodeError == [exc |-> "JSONDecodeError", chars |-> <<>>]

\* c in front of the decoded rest
decoded_after(c, rest) ==
    IF rest.exc # "none" THEN DecodeError
    ELSE [exc |-> "none", chars |-> <<c>> \o rest.chars]

RECURSIVE unescape(_)
\* json.loads of the characters of a JSON string between its quotes: the
\* string, or JSONDecodeError for a quote or a control character that is not
\* escaped, a backslash at the end, an escape that is none of
\* \" \\ \/ \b \f \n \r \t \uXXXX; a high surrogate followed by an escaped
\* low surrogate is one character.
unescape(cs) ==
    IF cs = <<>> THEN [exc |-> "none", chars |-> <<>>]
    ELSE IF Head(cs) = 34 \/ Head(cs) < 32 THEN DecodeError
    ELSE IF Head(cs) # 92
    THEN decoded_after(Head(cs), unescape(Tail(cs)))
    ELSE IF Len(cs) < 2 THEN DecodeError
    ELSE IF cs[2] # 117
    THEN IF simple_escape(cs[2]) < 0 THEN DecodeError
         ELSE decoded_after(simple_escape(cs[2]),
                            unescape(SubSeq(cs, 3, Len(cs))))
    ELSE IF ~IsHex4(cs, 3) THEN DecodeError
    ELSE LET c == Hex4Value(cs, 3)
             paired == /\ c \in 55296..56319
                       /\ Len(cs) >= 12
                       /\ cs[7] = 92
                       /\ cs[8] = 117
                       /\ IsHex4(cs, 9)
                       /\ Hex4Value(cs, 9) \in 56320..57343
         IN IF paired
            THEN decoded_after(65536 + (c - 55296) * 1024
                                 + (Hex4Value(cs, 9) - 56320),
                               unescape(SubSeq(cs, 13, Len(cs))))
            ELSE decoded_after(c, unescape(SubSeq(cs, 7, Len(cs))))

\* the JSON value written for a cell: NaN is written as null
encode_cell(c) ==
    IF c.k = "null" THEN [t |-> "null"]
    ELSE IF c.k = "num" THEN encode_double(c.whole, c.frac)
    ELSE [t |-> "string", chars |-> escape(c.chars)]

\* json.loads of a JSON value: the cell, or DecodeError
decode_value(v) ==
    IF v.t = "null" THEN [exc |-> "none", cell |-> Null]
    ELSE IF v.t = "number" THEN [exc |-> "none", cell |-> Num(v.whole, v.frac)]
    ELSE LET r == unescape(v.chars)
         IN [exc |-> r.exc, cell |-> Str(r.chars)]

columns_unique(d) ==
    \A i, j \in 1..Len(d.columns) : d.columns[i] = d.columns[j] => i = j

\* the values orient may have and the default of get_data_as_json
Orients == { "records", "split", "index", "columns", "values", "table" }
DefaultOrient == "records"

\* the arguments a caller is taken to pass: each orient, and a value that is
\* no orient
OrientArgs == Orients \cup { "rows" }

\* the rows of a frame as arrays of JSON values
json_rows(d) ==
    [i \in 1..Len(d.rows) |->
        [j \in 1..Len(d.columns) |-> encode_cell(d.rows[i][j])]]

\* the members <<key, value>> of the object written for row i
json_record(d, i) ==
    [j \in 1..Len(d.columns) |-> <<d.columns[j], encode_cell(d.rows[i][j])>>]

\* the label of row i in the RangeIndex, and as the key of an object
row_label(i) == i - 1
row_key(i) == ToString(i - 1)

\* orient='table': reset_index() puts the row labels in a column "index",
\* "level_0" when there is a column "index" already
index_column(d) == IF has_column(d, "index") THEN "level_0" ELSE "index"

\* The document to_json writes.  The type of a field of a table schema is
\* not part of the model.
json_document(d, o) ==
    IF o = "records"
    THEN [orient |-> o, indent |-> JsonIndent,
          records |-> [i \in 1..Len(d.rows) |-> json_record(d, i)]]
    ELSE IF o = "split"
    THEN [orient |-> o, indent |-> JsonIndent,
          columns |-> d.columns,
          index |-> [i \in 1..Len(d.rows) |-> row_label(i)],
          data |-> json_rows(d)]
    ELSE IF o = "index"
    THEN [orient |-> o, indent |-> JsonIndent,
          members |-> [i \in 1..Len(d.rows) |-> <<row_key(i), json_record(d, i)>>]]
    ELSE IF o = "columns"
    THEN [orient |-> o, indent |-> JsonIndent,
          members |-> [j \in 1..Len(d.columns) |->
                         <<d.columns[j],
                           [i \in 1..Len(d.rows) |->
                              <<row_key(i), encode_cell(d.rows[i][j])>>]>>]]
    ELSE IF o = "values"
    THEN [orient |-> o, indent |-> JsonIndent, data |-> json_rows(d)]
    ELSE [orient |-> o, indent |-> JsonIndent,
          schema |-> [fields |-> <<"index">> \o d.columns,
                      primaryKey |-> <<"index">>,
                      pandas_version |-> "1.4.0"],
          data |-> [i \in 1..Len(d.rows) |->
                      << <<index_column(d),
                           [t |-> "number", whole |-> row_label(i), frac |-> <<>>]>> >>
                      \o json_record(d, i)]]

\* A faulty variant of to_json: the members of an object in reverse order.
to_json_reversed_keys(d, o) ==
    IF ~columns_unique(d) THEN [ret |-> None, exc |-> "ValueError"]
    ELSE [ret |-> [orient |-> "records", indent |-> JsonIndent,
                   records |-> [i \in 1..Len(d.rows) |->
                                  [j \in 1..Len(d.columns) |->
                                     LET c == Len(d.columns) + 1 - j
                                     IN <<d.columns[c], encode_cell(d.rows[i][c])>>]]],
          exc |-> "none"]

\* df.to_json(orient=o, indent=4).  ValueError: for 'index', 'columns' and
\* 'records' when the column names are not unique; for 'table' when the row
\* labels cannot be put in a column (there are columns "index" and "level_0");
\* when o is no orient.
to_json(d, o) ==
    IF o \in {"index", "columns", "records"} /\ ~columns_unique(d)
    THEN [ret |-> None, exc |-> "ValueError"]
    ELSE IF o = "table" /\ has_column(d, "index") /\ has_column(d, "level_0")
    THEN [ret |-> None, exc |-> "ValueError"]
    ELSE IF o \notin Orients
    THEN [ret |-> None, exc |-> "ValueError"]
    ELSE [ret |-> json_document(d, o), exc |-> "none"]

\* json.loads of a document of orient 'records': a list of dicts, of members
\* with the same key the last one counts; JSONDecodeError when a string of
\* the document is not well formed
json_loads(doc) ==
    IF \E i \in 1..Len(doc.records) : \E j \in 1..Len(doc.records[i]) :
            decode_value(doc.records[i][j][2]).exc # "none"
    THEN [exc |-> "JSONDecodeError", value |-> <<>>]
    ELSE [exc |-> "none",
          value |->
            [i \in 1..Len(doc.records) |->
               LET ms == doc.records[i]
                   keys == { ms[j][1] : j \in 1..Len(ms) }
               IN [key \in keys |->
                     LET last == CHOOSE j \in 1..Len(ms) :
                                     /\ ms[j][1] = key
                                     /\ \A q \in 1..Len(ms) : ms[q][1] = key => q <= j
                     IN decode_value(ms[last][2]).cell]]]

----------------------------------------------------------------------------
(* The renaming of the columns (interactive_data_analysis.py) *)

\* new_column_names: the pairs <<old name, new name>> of the dict
new_column_names ==
    <<
       <<"Have you recently experienced stress in your life?",
         "experienced_stress">>,
       <<"Have you noticed a rapid heartbeat or palpitations?",
         "rapid_heartbeat">>,
       <<"Have you been dealing with anxiety or tension recently?",
         "anxiety_tension">>,
       <<"Do you face any sleep problems or difficulties falling asleep?",
         "sleep_problems">>,
       <<"Have you been getting headaches more often than usual?",
         "headaches">>,
       <<"Do you get irritated easily?",
         "irritability">>,
       <<"Do you have trouble concentrating on your academic tasks?",
         "concentration_difficulty">>,
       <<"Have you been feeling sadness or low mood?",
         "low_mood">>,
       <<"Have you been experiencing any illness or health issues?",
         "health_issues">>,
       <<"Do you often feel lonely or isolated?",
         "loneliness">>,
       <<"Do you feel overwhelmed with your academic workload?",
         "workload_overwhelm">>,
       <<"Are you in competition with your peers, and does it affect you?",
         "peer_competition">>,
       <<"Do you find that your relationship often causes you stress?",
         "relationship_stress">>,
       <<"Are you facing any difficulties with your professors or instructors?",
         "professor_difficulties">>,
       <<"Is your working environment unpleasant or stressful?",
         "unpleasant_environment">>,
       <<"Do you struggle to find time for relaxation and leisure activities?",
         "no_relaxation_time">>,
       <<"Is your hostel or home environment causing you difficulties?",
         "home_environment_issues">>,
       <<"Do you lack confidence in your academic performance?",
         "low_academic_confidence">>,
       <<"Do you lack confidence in your choice of academic subjects?",
         "low_subject_confidence">>,
       <<"Academic and extracurricular activities conflicting for you?",
         "activity_conflict">>,
       <<"Do you attend classes regularly?",
         "regular_class_attendance">>,
       <<"Have you gained/lost weight?",
         "weight_change">>,
       <<"Which type of stress do you primarily experience?",
         "stress_type">>
    >>

\* the name a column has after rename(columns=new_column_names)
new_name(col) ==
    IF \E k \in 1..Len(new_column_names) : new_column_names[k][1] = col
    THEN new_column_names[CHOOSE k \in 1..Len(new_column_names) :
                              new_column_names[k][1] = col][2]
    ELSE col

\* merged_df.rename(columns=new_column_names, inplace=True)
rename_columns(d) ==
    [columns |-> [j \in 1..Len(d.columns) |-> new_name(d.columns[j])],
     rows |-> d.rows]

----------------------------------------------------------------------------
(* StressDataHandler *)

\* _load_and_merge_data: the value returned, what is printed, and the
\* exception that leaves the method (only FileNotFoundError is caught).
load_and_merge_data(a, b) ==
    LET ra == read_csv(a)
        rb == read_csv(b)
    IN IF ra.exc = "FileNotFoundError"
       THEN [ret |-> None, out |-> <<MsgNotFound>>, exc |-> "none"]
       ELSE IF ra.exc # "none"
       THEN [ret |-> None, out |-> <<>>, exc |-> ra.exc]
       ELSE IF rb.exc = "FileNotFoundError"
       THEN [ret |-> None, out |-> <<MsgNotFound>>, exc |-> "none"]
       ELSE IF rb.exc # "none"
       THEN [ret |-> None, out |-> <<>>, exc |-> rb.exc]
       ELSE [ret |-> concat_axis1(ra.df, rb.df), out |-> <<>>, exc |-> "none"]

\* Faulty variants of validate_data: the column check made first,
validate_data_columns_first(d) ==
    IF d = None THEN [ret |-> FALSE, out |-> <<>>]
    ELSE IF ~(\A k \in 1..Len(expected_columns) : has_column(d, expected_columns[k]))
    THEN [ret |-> FALSE, out |-> <<MsgMissingColumns>>]
    ELSE IF null_count(d) > 0
    THEN [ret |-> FALSE, out |-> <<MsgMissingValues>>]
    ELSE [ret |-> TRUE, out |-> <<MsgValid>>]

\* one null cell tolerated,
validate_data_null_threshold(d) ==
    IF d = None THEN [ret |-> FALSE, out |-> <<>>]
    ELSE IF null_count(d) > 1
    THEN [ret |-> FALSE, out |-> <<MsgMissingValues>>]
    ELSE IF ~(\A k \in 1..Len(expected_columns) : has_column(d, expected_columns[k]))
    THEN [ret |-> FALSE, out |-> <<MsgMissingColumns>>]
    ELSE [ret |-> TRUE, out |-> <<MsgValid>>]

\* and one expected column taken to be enough.
validate_data_any_column(d) ==
    IF d = None THEN [ret |-> FALSE, out |-> <<>>]
    ELSE IF null_count(d) > 0
    THEN [ret |-> FALSE, out |-> <<MsgMissingValues>>]
    ELSE IF ~(\E k \in 1..Len(expected_columns) : has_column(d, expected_columns[k]))
    THEN [ret |-> FALSE, out |-> <<MsgMissingColumns>>]
    ELSE [ret |-> TRUE, out |-> <<MsgValid>>]

\* validate_data: the value returned and what is printed.
validate_data(d) ==
    IF d = None THEN [ret |-> FALSE, out |-> <<>>]
    ELSE IF null_count(d) > 0
    THEN [ret |-> FALSE, out |-> <<MsgMissingValues>>]
    ELSE IF ~(\A k \in 1..Len(expected_columns) : has_column(d, expected_columns[k]))
    THEN [ret |-> FALSE, out |-> <<MsgMissingColumns>>]
    ELSE [ret |-> TRUE, out |-> <<MsgValid>>]

\* get_data_as_json(orient): None when there is no table, else what to_json
\* returns or raises
get_data_as_json(d, o) ==
    IF d = None THEN [ret |-> None, exc |-> "none"]
    ELSE to_json(d, o)

----------------------------------------------------------------------------
(* The state machine *)

Init ==
    /\ fileA \in FilesA
    /\ fileB \in FilesBWith(fileA)
    /\ mode \in {"client", "main"}
    /\ pc = "start"
    /\ df = None
    /\ lastop = "none"
    /\ ret = None
    /\ orient = "unset"
    /\ out = <<>>
    /\ err = "none"
    /\ validated = "unset"
    /\ json_data = None
    /\ jsonFile = None
    /\ frames = None
    /\ chart = None

\* StressDataHandler(stress_path, stress_level_path): __init__ stores what
\* _load_and_merge_data returns in self.df.
Construct ==
    /\ pc = "start"
    /\ LET r == load_and_merge_data(fileA, fileB)
       IN /\ df' = r.ret
          /\ out' = r.out
          /\ err' = r.exc
          /\ pc' = IF r.exc = "none" THEN "constructed" ELSE "raised"
    /\ lastop' = "init"
    /\ ret' = None
    /\ UNCHANGED <<fileA, fileB, mode, orient, frames, chart, validated, json_data, jsonFile>>

\* df.dropna(): the frame without the rows that hold a null cell
dropna(d) ==
    [columns |-> d.columns,
     rows |-> SelectSeq(d.rows, LAMBDA r : \A j \in 1..Len(r) : ~IsNull(r[j]))]

\* A faulty variant of ValidateData: the rows with null cells are dropped from
\* self.df before the checks.
ValidateData_dropna ==
    /\ mode = "client"
    /\ pc = "constructed"
    /\ df' = IF df = None THEN None ELSE dropna(df)
    /\ LET r == validate_data(df')
       IN /\ ret' = r.ret
          /\ out' = r.out
          /\ validated' = IF r.ret THEN "True" ELSE "False"
    /\ lastop' = "validate_data"
    /\ UNCHANGED <<fileA, fileB, mode, orient, frames, chart, pc, err, json_data, jsonFile>>

\* a caller's call of validate_data()
ValidateData ==
    /\ mode = "client"
    /\ pc = "constructed"
    /\ LET r == validate_data(df)
       IN /\ ret' = r.ret
          /\ out' = r.out
          /\ validated' = IF r.ret THEN "True" ELSE "False"
    /\ lastop' = "validate_data"
    /\ UNCHANGED <<fileA, fileB, mode, orient, frames, chart, pc, df, err, json_data, jsonFile>>

\* a caller's call of get_data_as_json(), with or without an orient
GetDataAsJson ==
    /\ mode = "client"
    /\ pc = "constructed"
    /\ \E o \in OrientArgs :
          LET r == get_data_as_json(df, o)
          IN /\ orient' = o
             /\ ret' = r.ret
             /\ err' = r.exc
             /\ pc' = IF r.exc = "none" THEN "constructed" ELSE "raised"
    /\ lastop' = "get_data_as_json"
    /\ out' = <<>>
    /\ UNCHANGED <<fileA, fileB, mode, frames, chart, df, validated, json_data, jsonFile>>

\* __main__, line 96: if data_handler.validate_data():
MainValidate ==
    /\ mode = "main"
    /\ pc = "constructed"
    /\ LET r == validate_data(df)
       IN /\ ret' = r.ret
          /\ out' = r.out
          /\ validated' = IF r.ret THEN "True" ELSE "False"
          /\ pc' = IF r.ret THEN "get_json" ELSE "end"
    /\ lastop' = "validate_data"
    /\ UNCHANGED <<fileA, fileB, mode, orient, frames, chart, df, err, json_data, jsonFile>>

\* __main__, line 98: json_data = data_handler.get_data_as_json()
MainGetJson ==
    /\ mode = "main"
    /\ pc = "get_json"
    /\ LET r == get_data_as_json(df, DefaultOrient)
       IN /\ orient' = DefaultOrient
          /\ ret' = r.ret
          /\ err' = r.exc
          /\ json_data' = r.ret
          /\ pc' = IF r.exc = "none" THEN "write" ELSE "raised"
    /\ lastop' = "get_data_as_json"
    /\ out' = <<>>
    /\ UNCHANGED <<fileA, fileB, mode, frames, chart, df, validated, jsonFile>>

\* __main__, lines 101-104: the write of stress_data.json and the last print
MainWrite ==
    /\ mode = "main"
    /\ pc = "write"
    /\ jsonFile' = json_data
    /\ out' = <<MsgSaved>>
    /\ lastop' = "write"
    /\ ret' = None
    /\ pc' = "end"
    /\ UNCHANGED <<fileA, fileB, mode, orient, frames, chart, df, err, validated, json_data>>

Next ==
    \/ Construct
    \/ ValidateData
    \/ GetDataAsJson
    \/ MainValidate
    \/ MainGetJson
    \/ MainWrite

Spec == Init /\ [][Next]_vars

----------------------------------------------------------------------------
(* The exploratory scripts: machine_learning_analysis.py ("ml"),           *)
(* saas_dashboard_analysis.py ("saas") and interactive_data_analysis.py    *)
(* ("eda").  A step ends where the script waits (plt.show()) or ends.  Of   *)
(* what a step prints, the text of a literal and of a formatted number is  *)
(* modelled; the text pandas or scikit-learn gives for an object stands as *)
(* the name of the expression printed.                                     *)

MsgScriptNotFound == "Make sure the CSV files are in the 'archive(10)' directory."

\* features and target of machine_learning_analysis.py
features ==
    << "anxiety_level", "self_esteem", "mental_health_history", "depression",
       "headache", "blood_pressure", "sleep_quality", "breathing_problem",
       "noise_level", "living_conditions", "safety", "basic_needs",
       "academic_performance", "study_load", "teacher_student_relationship",
       "future_career_concerns", "social_support", "peer_pressure",
       "extracurricular_activities", "bullying" >>
target == "stress_level"

\* stress_factors and the columns of key_metrics of saas_dashboard_analysis.py
stress_factors ==
    << "anxiety_level", "self_esteem", "depression", "peer_pressure",
       "academic_performance" >>
key_metric_columns == << "anxiety_level", "self_esteem", "depression" >>

\* the labels of the pie chart, in the order the call gives them
pie_labels == << "Medium", "Low", "High" >>

\* the name of a stress level: 0 Low, 1 Medium, 2 High
LevelName(c) ==
    IF c = Num(0, <<>>) THEN "Low"
    ELSE IF c = Num(1, <<>>) THEN "Medium"
    ELSE IF c = Num(2, <<>>) THEN "High"
    ELSE "?"

\* The headers of the level file the scripts are run on: those of HeadersB,
\* one with a column named like a new name of new_column_names, and the
\* header with every feature.
ScriptHeadersB ==
    HeadersB \cup { <<"stress_type", "stress_level">>, features \o <<target>> }

\* A level file of n rows under header h whose stress_level column holds the
\* levels lv; the other cells are the default cells.
MakeLevelTable(h, n, lv) ==
    [columns |-> h,
     rows |-> [i \in 1..n |->
                 [j \in 1..Len(h) |->
                    IF h[j] = target THEN Num(lv[i], <<>>)
                    ELSE DefaultCell("B", h[j], i)]]]

ScriptFilesA ==
    { Missing, Empty } \cup
    { CsvFile(MakeTable("A", h, n, <<0, 0>>, Null)) :
        <<h, n>> \in HeadersA \X (0..MaxScriptRows) }

ScriptFilesB ==
    { Missing, Empty } \cup
    UNION { UNION { { CsvFile(MakeLevelTable(h, n, lv)) : lv \in [1..n -> 0..2] }
                  : n \in 0..MaxScriptRows }
          : h \in ScriptHeadersB }

HasAll(d, cols) == \A k \in 1..Len(cols) : has_column(d, cols[k])

\* the place of the one column named col
column_index(d, col) == CHOOSE j \in 1..Len(d.columns) : d.columns[j] = col

\* merged_df[col].value_counts(): the values of the column that are not null,
\* each with the number of rows holding it
value_count(d, col, v) ==
    Cardinality({ i \in 1..Len(d.rows) : d.rows[i][column_index(d, col)] = v })

counted_values(d, col) ==
    { d.rows[i][column_index(d, col)] : i \in 1..Len(d.rows) } \ { Null }

\* the number of cells of the column that are not null, and their sum (the
\* columns the scripts average hold whole numbers)
non_null_count(d, col) ==
    Cardinality({ i \in 1..Len(d.rows) : ~IsNull(d.rows[i][column_index(d, col)]) })

RECURSIVE sum_from(_, _, _)
sum_from(d, j, i) ==
    IF i > Len(d.rows) THEN 0
    ELSE (IF IsNull(d.rows[i][j]) THEN 0 ELSE d.rows[i][j].whole)
         + sum_from(d, j, i + 1)

column_sum(d, col) == sum_from(d, column_index(d, col), 1)

\* A float is a binary number of at most Mantissa digits (bits, the most
\* significant first, none for 0) times 2^e.
Mantissa == 53

RECURSIVE Pow2(_)
Pow2(n) == IF n = 0 THEN 1 ELSE 2 * Pow2(n - 1)

RECURSIVE binary(_)
\* the binary digits of a natural number
binary(n) == IF n = 0 THEN <<>> ELSE Append(binary(n \div 2), n % 2)

\* the m last binary digits of a natural number
padded(n, m) == [q \in 1..m |-> (n \div Pow2(m - q)) % 2]

RECURSIVE bits_value(_)
bits_value(bs) ==
    IF bs = <<>> THEN 0
    ELSE 2 * bits_value(SubSeq(bs, 1, Len(bs) - 1)) + bs[Len(bs)]

\* bs without the zeros in front of its first 1
stripped(bs) ==
    IF \A q \in 1..Len(bs) : bs[q] = 0 THEN <<>>
    ELSE SubSeq(bs,
                CHOOSE i \in 1..Len(bs) :
                    bs[i] = 1 /\ \A q \in 1..(i - 1) : bs[q] = 0,
                Len(bs))

\* the binary number after bs
increment(bs) ==
    IF \A q \in 1..Len(bs) : bs[q] = 1
    THEN <<1>> \o [q \in 1..Len(bs) |-> 0]
    ELSE LET z == CHOOSE i \in 1..Len(bs) :
                      bs[i] = 0 /\ \A q \in (i + 1)..Len(bs) : bs[q] = 1
         IN [q \in 1..Len(bs) |-> IF q < z THEN bs[q] ELSE IF q = z THEN 1 ELSE 0]

\* the number of binary digits worked on in one step
ChunkBits == 8

RECURSIVE times(_, _, _)
\* bs * k + carry, ChunkBits digits in a step
times(bs, k, carry) ==
    IF bs = <<>> THEN binary(carry)
    ELSE LET n == Len(bs)
             m == IF n >= ChunkBits THEN ChunkBits ELSE n
             t == bits_value(SubSeq(bs, n - m + 1, n)) * k + carry
         IN times(SubSeq(bs, 1, n - m), k, t \div Pow2(m)) \o padded(t % Pow2(m), m)

\* kept * 2^e rounded up by one unit of its last digit when up holds
rounded(kept, e, up) ==
    IF ~up THEN [bits |-> kept, e |-> e]
    ELSE IF Len(increment(kept)) > Len(kept)
    THEN [bits |-> SubSeq(increment(kept), 1, Len(kept)), e |-> e + 1]
    ELSE [bits |-> increment(kept), e |-> e]

\* the float nearest to bs * 2^e, of two nearest the one with an even
\* last digit
round_bits(bs, e) ==
    IF Len(bs) <= Mantissa THEN [bits |-> bs, e |-> e]
    ELSE LET kept == SubSeq(bs, 1, Mantissa)
             rest == SubSeq(bs, Mantissa + 1, Len(bs))
             half == rest[1] = 1
             sticky == \E q \in 2..Len(rest) : rest[q] = 1
         IN rounded(kept, e + Len(rest),
                    half /\ (sticky \/ kept[Mantissa] = 1))

\* the number of steps of the long division: their digits hold the zeros in
\* front of a quotient below 1, Mantissa digits and the digit after them
DivisionChunks == 11

RECURSIVE divide_bits(_, _, _)
\* The long division of r / den for r < den, n steps of ChunkBits digits:
\* the digits of the quotient after the binary point and the remainder.
divide_bits(r, den, n) ==
    IF n = 0 THEN [bits |-> <<>>, r |-> r]
    ELSE LET rest == divide_bits((r * Pow2(ChunkBits)) % den, den, n - 1)
         IN [bits |-> padded((r * Pow2(ChunkBits)) \div den, ChunkBits) \o rest.bits,
             r |-> rest.r]

\* num / den in floats, for num >= 0 and 0 < den < 2^23
float_div(num, den) ==
    IF num = 0 THEN [bits |-> <<>>, e |-> 0]
    ELSE LET d == divide_bits(num % den, den, DivisionChunks)
             all == stripped(binary(num \div den) \o d.bits)
             kept == SubSeq(all, 1, Mantissa)
             rest == SubSeq(all, Mantissa + 1, Len(all))
             half == rest[1] = 1
             sticky == d.r # 0 \/ \E q \in 2..Len(rest) : rest[q] = 1
         IN rounded(kept, Len(rest) - ChunkBits * DivisionChunks,
                    half /\ (sticky \/ kept[Mantissa] = 1))

\* x * k in floats, for a natural number k
float_times(x, k) == round_bits(times(x.bits, k, 0), x.e)

\* f"{x:.2f}" for a float x >= 0 with x.e <= 0: the decimal number of two
\* decimal places nearest to the float, of two nearest the even one
format_2f(x) ==
    LET bs == times(x.bits, 100, 0)
        n == Len(bs)
        f == 0 - x.e
        whole == IF f >= n THEN <<>> ELSE SubSeq(bs, 1, n - f)
        frac == [q \in 1..f |-> IF q <= f - n THEN 0 ELSE bs[n - f + q]]
        half == f > 0 /\ frac[1] = 1
        sticky == \E q \in 2..f : frac[q] = 1
        w == bits_value(whole)
        h == IF half /\ (sticky \/ w % 2 = 1) THEN w + 1 ELSE w
    IN ToString(h \div 100) \o "." \o ToString((h \div 10) % 10)
         \o ToString(h % 10)

\* what print writes for the object an expression gives: its text is not
\* modelled, the expression stands for it
text_of(expression) == "<" \o expression \o ">"

\* The orders value_counts may give the values in: the larger count first;
\* the order of values with the same count is left open.
value_counts_orders(d, col) ==
    LET vs == counted_values(d, col)
    IN { o \in [1..Cardinality(vs) -> vs] :
           /\ \A a, b \in 1..Cardinality(vs) : o[a] = o[b] => a = b
           /\ \A a, b \in 1..Cardinality(vs) :
                 a < b => value_count(d, col, o[a]) >= value_count(d, col, o[b]) }

\* Faulty variant of pie_slices, which labels each slice by its level.
pie_slices_by_level(d, order, labels) ==
    [q \in 1..Len(order) |->
        [value |-> order[q], count |-> value_count(d, target, order[q]),
         label |-> LevelName(order[q])]]

\* plt.pie(stress_counts, labels=labels): slice q shows the q-th count under
\* the q-th label
pie_slices(d, order, labels) ==
    [q \in 1..Len(order) |->
        [value |-> order[q], count |-> value_count(d, target, order[q]),
         label |-> labels[q]]]

ScriptInit ==
    /\ fileA \in ScriptFilesA
    /\ fileB \in ScriptFilesB
    /\ mode \in {"ml", "saas", "eda"}
    /\ pc = "start"
    /\ df = None
    /\ lastop = "none"
    /\ ret = None
    /\ orient = "unset"
    /\ out = <<>>
    /\ err = "none"
    /\ validated = "unset"
    /\ json_data = None
    /\ jsonFile = None
    /\ frames = None
    /\ chart = None

\* interactive_data_analysis.py: the string literals of lines 87, 107 and 110
\* are not closed on their line, so Python rejects the file with a
\* SyntaxError before its first statement runs.
EdaCompile ==
    /\ mode = "eda"
    /\ pc = "start"
    /\ pc' = "raised"
    /\ err' = "SyntaxError"
    /\ lastop' = "compile"
    /\ UNCHANGED <<fileA, fileB, mode, orient, frames, chart, df, ret, out, validated,
                   json_data, jsonFile>>

\* A faulty variant of ScriptLoad: the diagnostic is printed, exit() is not
\* called.
ScriptLoad_no_exit ==
    /\ mode \in {"ml", "saas"}
    /\ pc = "start"
    /\ LET ra == read_csv(fileA)
           rb == read_csv(fileB)
           exc == IF ra.exc # "none" THEN ra.exc ELSE rb.exc
       IN /\ frames' = IF exc = "none" THEN <<ra.df, rb.df>> ELSE None
          /\ out' = IF exc = "FileNotFoundError" THEN <<MsgScriptNotFound>> ELSE <<>>
          /\ err' = IF exc = "FileNotFoundError" THEN "none" ELSE exc
          /\ pc' = IF exc \in {"none", "FileNotFoundError"} THEN "loaded"
                   ELSE "raised"
    /\ lastop' = "load"
    /\ UNCHANGED <<fileA, fileB, mode, orient, chart, df, ret, validated, json_data,
                   jsonFile>>

\* The try block of a script: both files are read; on FileNotFoundError the
\* diagnostic is printed and exit() ends the process; any other exception is
\* not caught.
ScriptLoad ==
    /\ mode \in {"ml", "saas"}
    /\ pc = "start"
    /\ LET ra == read_csv(fileA)
           rb == read_csv(fileB)
           exc == IF ra.exc # "none" THEN ra.exc ELSE rb.exc
       IN /\ frames' = IF exc = "none" THEN <<ra.df, rb.df>> ELSE None
          /\ out' = IF exc = "FileNotFoundError" THEN <<MsgScriptNotFound>> ELSE <<>>
          /\ err' = IF exc = "FileNotFoundError" THEN "none" ELSE exc
          /\ pc' = IF exc = "none" THEN "loaded"
                   ELSE IF exc = "FileNotFoundError" THEN "exited"
                   ELSE "raised"
    /\ lastop' = "load"
    /\ UNCHANGED <<fileA, fileB, mode, orient, chart, df, ret, validated, json_data,
                   jsonFile>>

\* merged_df = pd.concat([stress_df, stress_level_df], axis=1)
ScriptMerge ==
    /\ mode \in {"ml", "saas"}
    /\ pc = "loaded"
    /\ frames # None
    /\ df' = concat_axis1(frames[1], frames[2])
    /\ pc' = "merged"
    /\ lastop' = "merge"
    /\ out' = <<>>
    /\ UNCHANGED <<fileA, fileB, mode, orient, frames, chart, ret, err, validated,
                   json_data, jsonFile>>

\* machine_learning_analysis.py, lines 74-75: X = merged_df[features],
\* y = merged_df[target]; KeyError when a column is absent.
MlSelectFeatures ==
    /\ mode = "ml"
    /\ pc = "merged"
    /\ LET ok == HasAll(df, features) /\ has_column(df, target)
       IN /\ pc' = IF ok THEN "selected" ELSE "raised"
          /\ err' = IF ok THEN "none" ELSE "KeyError"
    /\ lastop' = "select_features"
    /\ out' = <<>>
    /\ UNCHANGED <<fileA, fileB, mode, orient, frames, chart, df, ret, validated,
                   json_data, jsonFile>>

\* n_test of train_test_split(test_size=0.2): ceil(0.2 * n)
test_size(n) == (n + 4) \div 5

\* machine_learning_analysis.py, lines 86-108: the split, the training and
\* the evaluation.  train_test_split raises ValueError for fewer than two
\* rows (the train set would be empty), fit raises ValueError when y holds
\* NaN.  Which of the test rows the model predicts right is left open.
MlTrain ==
    /\ mode = "ml"
    /\ pc = "selected"
    /\ IF Len(df.rows) < 2 \/ non_null_count(df, target) < Len(df.rows)
       THEN /\ pc' = "raised"
            /\ err' = "ValueError"
            /\ out' = <<>>
       ELSE \E correct \in 0..test_size(Len(df.rows)) :
               /\ pc' = "trained"
               /\ err' = "none"
               /\ out' = << "\nModel Accuracy: "
                               \o format_2f(float_times(
                                        float_div(correct, test_size(Len(df.rows))),
                                        100))
                               \o "%",
                            "\nClassification Report:",
                            text_of("classification_report(y_test, y_pred)") >>
    /\ lastop' = "train"
    /\ UNCHANGED <<fileA, fileB, mode, orient, frames, chart, df, ret, validated,
                   json_data, jsonFile>>

\* machine_learning_analysis.py, lines 116-122: the confusion matrix, shown
\* until its window is closed
MlConfusionMatrix ==
    /\ mode = "ml"
    /\ pc = "trained"
    /\ pc' = "confusion_matrix"
    /\ lastop' = "confusion_matrix"
    /\ out' = <<>>
    /\ UNCHANGED <<fileA, fileB, mode, orient, frames, chart, df, ret, err,
                   validated, json_data, jsonFile>>

\* machine_learning_analysis.py, lines 130-134: the feature importances,
\* shown until the window is closed; the script ends
MlFeatureImportance ==
    /\ mode = "ml"
    /\ pc = "confusion_matrix"
    /\ pc' = "end"
    /\ lastop' = "feature_importance"
    /\ out' = <<>>
    /\ UNCHANGED <<fileA, fileB, mode, orient, frames, chart, df, ret, err,
                   validated, json_data, jsonFile>>

\* line 59: print(f"Average Stress Level: {avg_stress_level:.2f}"); the mean
\* skips the null cells and is nan when there is no other cell
average_stress_level_line(d) ==
    "Average Stress Level: "
      \o (IF non_null_count(d, target) = 0 THEN "nan"
          ELSE format_2f(float_div(column_sum(d, target),
                                   non_null_count(d, target))))

\* saas_dashboard_analysis.py, lines 58-76: the KPIs.  KeyError in line 58
\* when stress_level is absent; KeyError in line 65, after the print of line
\* 59, when Gender is absent.
SaasKpi ==
    /\ mode = "saas"
    /\ pc = "merged"
    /\ IF ~has_column(df, target)
       THEN /\ pc' = "raised"
            /\ err' = "KeyError"
            /\ out' = <<>>
       ELSE IF ~has_column(df, "Gender")
       THEN /\ pc' = "raised"
            /\ err' = "KeyError"
            /\ out' = << average_stress_level_line(df) >>
       ELSE /\ pc' = "kpi"
            /\ err' = "none"
            /\ out' = << average_stress_level_line(df),
                         "\nAverage Stress Level by Gender:",
                         text_of("stress_by_gender"),
                         "\nCharacteristics of High-Stress Students:",
                         text_of("high_stress_students.describe()") >>
    /\ lastop' = "kpi"
    /\ UNCHANGED <<fileA, fileB, mode, orient, frames, chart, df, ret, validated,
                   json_data, jsonFile>>

\* saas_dashboard_analysis.py, lines 94-98: stress_counts and the pie chart;
\* plt.pie raises ValueError unless there are as many labels as counts.
SaasPie ==
    /\ mode = "saas"
    /\ pc = "kpi"
    /\ \E order \in value_counts_orders(df, target) :
          IF Len(order) = Len(pie_labels)
          THEN /\ chart' = pie_slices(df, order, pie_labels)
               /\ pc' = "pie"
               /\ err' = "none"
          ELSE /\ chart' = None
               /\ pc' = "raised"
               /\ err' = "ValueError"
    /\ lastop' = "pie"
    /\ out' = <<>>
    /\ UNCHANGED <<fileA, fileB, mode, orient, frames, df, ret, validated, json_data,
                   jsonFile>>

\* saas_dashboard_analysis.py, lines 104-115: the correlations and the bar
\* chart, shown until its window is closed; KeyError when one of the columns
\* is absent.  Whether the plot of the correlations ends normally or in an
\* error of the library is left open.
SaasBarChart ==
    /\ mode = "saas"
    /\ pc = "pie"
    /\ \E ok \in BOOLEAN :
          LET cols == HasAll(df, stress_factors) /\ has_column(df, target)
          IN /\ pc' = IF cols /\ ok THEN "bar" ELSE "raised"
             /\ err' = IF ~cols THEN "KeyError"
                       ELSE IF ok THEN "none" ELSE "LibraryError"
    /\ lastop' = "bar"
    /\ out' = <<>>
    /\ UNCHANGED <<fileA, fileB, mode, orient, frames, chart, df, ret, validated,
                   json_data, jsonFile>>

\* saas_dashboard_analysis.py, lines 121-132: the key metrics, built and
\* printed; KeyError when one of their columns is absent.  The script ends.
SaasKeyMetrics ==
    /\ mode = "saas"
    /\ pc = "bar"
    /\ IF HasAll(df, key_metric_columns)
       THEN /\ pc' = "end"
            /\ err' = "none"
            /\ out' = << "\n--- Key Metrics ---", text_of("key_metrics_df") >>
       ELSE /\ pc' = "raised"
            /\ err' = "KeyError"
            /\ out' = <<>>
    /\ lastop' = "key_metrics"
    /\ UNCHANGED <<fileA, fileB, mode, orient, frames, chart, df, ret, validated,
                   json_data, jsonFile>>

ScriptNext ==
    \/ EdaCompile
    \/ ScriptLoad
    \/ ScriptMerge
    \/ MlSelectFeatures
    \/ MlTrain
    \/ MlConfusionMatrix
    \/ MlFeatureImportance
    \/ SaasKpi
    \/ SaasPie
    \/ SaasBarChart
    \/ SaasKeyMetrics

ScriptSpec == ScriptInit /\ [][ScriptNext]_vars

----------------------------------------------------------------------------
(* Properties *)

BothRead == fileA.k = "csv" /\ fileB.k = "csv"
RowsA == Len(fileA.table.rows)
RowsB == Len(fileB.table.rows)
ColsA == Len(fileA.table.columns)
ColsB == Len(fileB.table.columns)
Loaded == pc # "start"
HasTable == df # None
AllExpected(d) ==
    \A k \in 1..Len(expected_columns) : has_column(d, expected_columns[k])

\* C1: when either source file cannot be found, construction prints the
\* diagnostic, raises nothing and leaves df None; afterwards validate_data
\* returns False and get_data_as_json returns None, without raising.
C1_NotFoundIsReported ==
    (Loaded /\ (fileA = Missing \/ fileB = Missing)) =>
        /\ err = "none"
        /\ pc # "raised"
        /\ df = None
        /\ (lastop = "init" => out = <<MsgNotFound>>)
        /\ (lastop = "validate_data" => ret = FALSE)
        /\ (lastop = "get_data_as_json" => ret = None)

\* C2: two source tables with the same number of rows merge into a table
\* with that number of rows and with as many columns as both sources have
\* together.
C2_MergeShape ==
    (Loaded /\ BothRead /\ RowsA = RowsB) =>
        /\ HasTable
        /\ Len(df.rows) = RowsA
        /\ Len(df.columns) = ColsA + ColsB
        /\ \A i \in 1..Len(df.rows) : Len(df.rows[i]) = ColsA + ColsB

C2_Witness ==
    /\ HasTable /\ BothRead
    /\ RowsA = MaxRows /\ RowsB = MaxRows
    /\ ColsA = 3 /\ ColsB = 2
    /\ Len(df.rows) = MaxRows /\ Len(df.columns) = 5
    /\ ~columns_unique(df)

\* C3 as stated: row i of the merged table is row i of source A followed by
\* row i of source B, and the merged row count equals the row count of each
\* source.
C3_Original ==
    (Loaded /\ BothRead) =>
        /\ HasTable
        /\ Len(df.rows) = RowsA
        /\ Len(df.rows) = RowsB
        /\ \A i \in 1..Len(df.rows) :
              df.rows[i] = fileA.table.rows[i] \o fileB.table.rows[i]

\* C3 as amended: the merge is positional and order-preserving: for every
\* row index i within a source's row count, row i of the merged table holds
\* row i of that source in that source's columns; the merged row count is the
\* larger of the two row counts (the row count of each source when they are
\* equal), and past the end of the shorter source its columns are null.
C3_PositionalMerge ==
    (Loaded /\ BothRead) =>
        /\ HasTable
        /\ Len(df.rows) = Max(RowsA, RowsB)
        /\ (RowsA = RowsB => Len(df.rows) = RowsA /\ Len(df.rows) = RowsB)
        /\ \A i \in 1..Len(df.rows) :
              /\ Len(df.rows[i]) = ColsA + ColsB
              /\ SubSeq(df.rows[i], 1, ColsA)
                   = (IF i <= RowsA THEN fileA.table.rows[i] ELSE NullRow(ColsA))
              /\ SubSeq(df.rows[i], ColsA + 1, ColsA + ColsB)
                   = (IF i <= RowsB THEN fileB.table.rows[i] ELSE NullRow(ColsB))

C3_Witness ==
    /\ HasTable /\ BothRead
    /\ RowsA = 2 /\ RowsB = MaxRows
    /\ df.rows[1] # df.rows[2]
    /\ SubSeq(df.rows[MaxRows], 1, ColsA) = NullRow(ColsA)

\* C4 as stated: when the two sources have different row counts the merge
\* fails and no merged table is produced.
C4_Original ==
    (Loaded /\ BothRead /\ RowsA # RowsB) => ~HasTable

\* C4 as amended: when the two sources have different row counts the merge
\* does not fail: it raises nothing and produces a merged table for the
\* caller, with as many rows as the longer source.
C4_MismatchStillMerges ==
    (Loaded /\ BothRead /\ RowsA # RowsB) =>
        /\ HasTable
        /\ (lastop = "init" => pc = "constructed" /\ err = "none")
        /\ Len(df.rows) = Max(RowsA, RowsB)
        /\ Len(df.rows) > 0

C4_Witness ==
    /\ lastop = "init" /\ pc = "constructed" /\ BothRead
    /\ RowsA = MaxRows /\ RowsB = MaxRows - 1
    /\ HasTable /\ Len(df.rows) = MaxRows

\* C5: validate_data on a table with a null cell returns False and reports
\* "missing values" and nothing else, also when a required column is absent.
C5_NullsReportedFirst ==
    (lastop = "validate_data" /\ HasTable /\ null_count(df) > 0) =>
        /\ ret = FALSE
        /\ out = <<MsgMissingValues>>

C5_Witness ==
    /\ lastop = "validate_data" /\ HasTable
    /\ null_count(df) > 0 /\ ~AllExpected(df)
    /\ ret = FALSE /\ out = <<MsgMissingValues>>

\* C6: validate_data on a table without null cells but without one of the
\* required columns returns False and reports "missing columns".
C6_MissingColumnsReported ==
    (lastop = "validate_data" /\ HasTable /\ null_count(df) = 0
        /\ ~AllExpected(df)) =>
        /\ ret = FALSE
        /\ out = <<MsgMissingColumns>>

C6_Witness ==
    /\ lastop = "validate_data" /\ HasTable
    /\ null_count(df) = 0 /\ ~AllExpected(df)
    /\ has_column(df, "Age") /\ has_column(df, "stress_level")
    /\ Len(df.rows) > 0
    /\ ret = FALSE /\ out = <<MsgMissingColumns>>

\* C7: validate_data returns True exactly when a table is present, no cell
\* is null and every required column is present.
C7_ValidIff ==
    (lastop = "validate_data") =>
        (ret = TRUE <=> (HasTable /\ null_count(df) = 0 /\ AllExpected(df)))

C7_Witness ==
    /\ lastop = "validate_data" /\ ret = TRUE
    /\ HasTable /\ Len(df.rows) = MaxRows /\ out = <<MsgValid>>

\* C8: parsing the JSON get_data_as_json gives in the records orientation
\* succeeds and gives one record per row of the merged table, and each record
\* holds every column's cell unchanged.
C8_RoundTrip ==
    (lastop = "get_data_as_json" /\ orient = "records" /\ HasTable) =>
        /\ err = "none"
        /\ ret # None
        /\ LET parsed == json_loads(ret)
           IN /\ parsed.exc = "none"
              /\ Len(parsed.value) = Len(df.rows)
              /\ \A i \in 1..Len(df.rows) : \A j \in 1..Len(df.columns) :
                    /\ df.columns[j] \in DOMAIN parsed.value[i]
                    /\ parsed.value[i][df.columns[j]] = df.rows[i][j]

\* C9: no sequence of operations of the handler, for any source files, ends
\* in an uncaught error.
C9_NoUncaughtError == err = "none" /\ pc # "raised"

\* C10: in __main__ the export happens only after validate_data returned
\* True; when a source file is missing or validation fails, nothing is
\* exported and the run ends normally.
C10_ExportOnlyAfterValid ==
    (mode = "main") =>
        /\ (pc \in {"get_json", "write"} \/ json_data # None \/ jsonFile # None
              \/ lastop \in {"get_data_as_json", "write"})
            => validated = "True"
        /\ (Loaded /\ (fileA = Missing \/ fileB = Missing \/ validated = "False")) =>
              /\ err = "none" /\ pc # "raised"
              /\ json_data = None /\ jsonFile = None
              /\ (lastop = "validate_data" => pc = "end")

\* the keys of the objects of a JSON document are the column names cols, in
\* that order
KeysAre(doc, cols) ==
    \A i \in 1..Len(doc.records) :
        /\ Len(doc.records[i]) = Len(cols)
        /\ \A j \in 1..Len(cols) : doc.records[i][j][1] = cols[j]

\* C11: the exported document is an array with one object per row of the
\* merged table, holding every column under its canonical snake_case name,
\* printed with 4-space indentation.
C11_ExportRenamed ==
    (mode = "main" /\ jsonFile # None) =>
        /\ jsonFile.indent = 4
        /\ Len(jsonFile.records) = Len(df.rows)
        /\ KeysAre(jsonFile, rename_columns(df).columns)

\* the keys of the members ms, in their order
MemberKeys(ms) == [j \in 1..Len(ms) |-> ms[j][1]]

\* C12: every step of get_data_as_json (the only steps that end with lastop
\* naming it), whatever orient it is called with, changes neither the table
\* nor any file, and the document returned names the columns of the merged
\* table in their order, the columns of source A, then those of source B: as
\* the keys of every object of the array (records), of every row's object
\* (index) and of every object of the data after the row label (table), as
\* the keys of the document (columns) and as its list of columns (split).
C12_ToJsonPure ==
    [][(lastop' = "get_data_as_json") =>
          /\ df' = df
          /\ jsonFile' = jsonFile
          /\ fileA' = fileA /\ fileB' = fileB
          /\ (ret' # None =>
                LET cols == fileA.table.columns \o fileB.table.columns
                IN /\ ret'.orient = orient'
                   /\ df.columns = cols
                   /\ (orient' = "records" =>
                         /\ Len(ret'.records) = Len(df.rows)
                         /\ KeysAre(ret', df.columns)
                         /\ KeysAre(ret', cols))
                   /\ (orient' = "index" =>
                         /\ Len(ret'.members) = Len(df.rows)
                         /\ \A i \in 1..Len(ret'.members) :
                               MemberKeys(ret'.members[i][2]) = cols)
                   /\ (orient' = "table" =>
                         /\ Len(ret'.data) = Len(df.rows)
                         /\ \A i \in 1..Len(ret'.data) :
                               Tail(MemberKeys(ret'.data[i])) = cols)
                   /\ (orient' = "columns" => MemberKeys(ret'.members) = cols)
                   /\ (orient' = "split" => ret'.columns = cols))]_vars

C12_Witness ==
    /\ lastop = "get_data_as_json" /\ ret # None /\ orient = "records"
    /\ Len(df.columns) = 5 /\ Len(df.rows) = MaxRows
    /\ ret.records[1][1][1] = "Gender"
    /\ ret.records[1][5][1] = "stress_level"
    /\ jsonFile = None

\* C13: after construction the table never changes, whatever is called, and
\* validate_data returns what it returned before.
C13_TableImmutable ==
    [][Loaded =>
          /\ df' = df
          /\ (validated # "unset" => validated' = validated)]_vars

C13_Witness ==
    /\ mode = "client" /\ lastop = "get_data_as_json"
    /\ validated = "False" /\ HasTable /\ null_count(df) > 0
    /\ df = concat_axis1(fileA.table, fileB.table)

\* C14: sources of different row counts merge into a table with the larger
\* row count whose cells past the end of the shorter source are null;
\* validate_data returns False on it and reports "missing values", and
\* __main__ exports nothing.
C14_UnequalNeverExported ==
    (Loaded /\ BothRead /\ RowsA # RowsB) =>
        /\ HasTable
        /\ Len(df.rows) = Max(RowsA, RowsB)
        /\ \A i \in 1..Len(df.rows) :
              /\ i > RowsA => \A j \in 1..ColsA : IsNull(df.rows[i][j])
              /\ i > RowsB => \A j \in 1..ColsB : IsNull(df.rows[i][ColsA + j])
        /\ (lastop = "validate_data" =>
              ret = FALSE /\ out = <<MsgMissingValues>>)
        /\ validated # "True"
        /\ (mode = "main" =>
              /\ pc \notin {"get_json", "write"}
              /\ json_data = None /\ jsonFile = None)

C14_Witness ==
    /\ mode = "main" /\ pc = "end" /\ BothRead
    /\ RowsA = MaxRows - 1 /\ RowsB = MaxRows
    /\ AllExpected(df)
    /\ validated = "False" /\ out = <<MsgMissingValues>>
    /\ jsonFile = None

\* C15: the columns of the merged table are the columns of source A followed
\* by those of source B, none dropped, merged or renamed, also when the
\* sources share a name; get_data_as_json yields one key per column in every
\* record.
C15_ColumnsUnion ==
    (Loaded /\ BothRead) =>
        /\ HasTable
        /\ df.columns = fileA.table.columns \o fileB.table.columns
        /\ Len(df.columns) = ColsA + ColsB
        /\ ((lastop = "get_data_as_json" /\ orient = "records") =>
              /\ err = "none"
              /\ ret # None
              /\ \A i \in 1..Len(ret.records) :
                    Cardinality({ ret.records[i][j][1] :
                                    j \in 1..Len(ret.records[i]) })
                      = Len(df.columns))

\* the pairs of new_column_names
IsRenamedTo(old, new) ==
    \E k \in 1..Len(new_column_names) : new_column_names[k] = <<old, new>>
IsKey(old) ==
    \E k \in 1..Len(new_column_names) : new_column_names[k][1] = old
MappingInjective ==
    \A a, b \in 1..Len(new_column_names) :
        new_column_names[a][2] = new_column_names[b][2] => a = b

\* C16: a run of interactive_data_analysis.py on two readable files renames
\* the columns of the merged table, and the renaming changes names only: it
\* leaves the rows, the number and order of the columns and every cell as
\* they are, a column that is no key of the mapping keeps its name, the
\* mapping is injective and the resulting names are pairwise distinct.
C16_RenameChangesNamesOnly ==
    (mode = "eda" /\ pc # "start" /\ BothRead) =>
        /\ err = "none"
        /\ df # None
        /\ LET m == concat_axis1(fileA.table, fileB.table)
           IN /\ df.rows = m.rows
              /\ Len(df.columns) = Len(m.columns)
              /\ \A j \in 1..Len(m.columns) :
                    \/ IsRenamedTo(m.columns[j], df.columns[j])
                    \/ (~IsKey(m.columns[j]) /\ df.columns[j] = m.columns[j])
              /\ MappingInjective
              /\ columns_unique(df)

\* C17: in each exploratory script, when a CSV file is not found the script
\* prints the diagnostic and exits at once; the merge and the later steps are
\* reached only after both files were read.
C17_NotFoundExits ==
    (mode \in {"ml", "saas", "eda"}) =>
        /\ (pc # "start" /\ (fileA = Missing \/ fileB = Missing)) =>
              /\ pc = "exited"
              /\ lastop = "load"
              /\ out = <<MsgScriptNotFound>>
              /\ err = "none"
              /\ df = None
        /\ (df # None \/ pc \notin {"start", "exited", "raised"}) =>
              /\ BothRead
              /\ frames = <<fileA.table, fileB.table>>

\* C18: every slice of the pie chart bears the name of the stress level whose
\* rows it counts (0 Low, 1 Medium, 2 High), whatever the stress levels of
\* the merged table are: the chart is drawn when a row has a stress level,
\* also when some level does not occur.
C18_SlicesNamed ==
    (mode = "saas" /\ lastop = "pie") =>
        /\ (counted_values(df, target) # {} => err = "none" /\ pc = "pie")
        /\ (pc = "pie" =>
              \A q \in 1..Len(chart) :
                 /\ chart[q].count = value_count(df, target, chart[q].value)
                 /\ chart[q].label = LevelName(chart[q].value))

====
